---- MODULE Spec2Model ----
(***************************************************************************)
(* Model of crsmain_unsafe.rs: the driver of the 2D array access test.     *)
(* main() resolves (nrpt, ny, nx) from the command line, allocates and     *)
(* fills in_array, calls crssub_unsafe::csub nrpt times and scans the      *)
(* result once.  The kernel csub lives in crssub_unsafe.rs, which is not   *)
(* among the sources; it is modelled from its contract (spec.md 4.3).      *)
(***************************************************************************)
EXTENDS Integers, Sequences, FiniteSets, TLC

\* args, nrpt, ny, nx, in_array, out_array, iy, ix and irpt are main's locals;
\* pc is the position in main; stdout is the lines printed so far.
\* History: compared lists the cells the verification scan has compared,
\* written holds the output cells some kernel call has stored to, calls
\* counts the kernel calls made.
VARIABLES args, pc, nrpt, ny, nx, in_array, out_array, iy, ix, irpt,
          stdout, compared, written, calls

vars == <<args, pc, nrpt, ny, nx, in_array, out_array, iy, ix, irpt,
          stdout, compared, written, calls>>

(* ------------------------------ bounds --------------------------------- *)

\* Largest number written on the command line.
MaxVal == 3
\* Largest array dimension for which the arrays are built (cap on ny, nx).
MaxDim == 2
\* Largest repeat count for which the kernel loop is run (cap on nrpt).
MaxRpt == 2
\* Most surplus command-line arguments, those after the third.
MaxExtra == 1

(* --------------------------- program constants ------------------------- *)

DefaultNrpt == 100000
DefaultNy == 10
DefaultNx == 2000
\* Significand precision of f32, the element type of both arrays.
F32Digits == 24

(* ------------------------- str::parse::<usize> ------------------------- *)

DigitChars == <<"0", "1", "2", "3", "4", "5", "6", "7", "8", "9">>

IsDigit(c) == \E i \in 1..10 : DigitChars[i] = c

DigitVal(c) == (CHOOSE i \in 1..10 : DigitChars[i] = c) - 1

RECURSIVE DigitsValue(_)
DigitsValue(ds) ==
    IF Len(ds) = 0 THEN 0
    ELSE 10 * DigitsValue(SubSeq(ds, 1, Len(ds) - 1)) + DigitVal(ds[Len(ds)])

\* A token is a sequence of characters.  The result is the parsed number,
\* or -1 for Err: the empty string, a lone sign, a leading "-" (usize is
\* unsigned, so "-" counts as an invalid digit) and any non-digit fail; one
\* leading "+" is accepted.  Tokens here are far below usize::MAX, so the
\* PosOverflow error is out of reach.
ParseUsize(s) ==
    LET ds == IF Len(s) > 0 /\ s[1] = "+" THEN Tail(s) ELSE s
    IN  IF Len(ds) = 0 \/ \E i \in 1..Len(ds) : ~IsDigit(ds[i]) THEN -1
        ELSE DigitsValue(ds)

(* ------------------------------ f32 ------------------------------------ *)

RECURSIVE Pow2(_)
Pow2(n) == IF n = 0 THEN 1 ELSE 2 * Pow2(n - 1)

\* Spacing of consecutive f32 values around the non-negative integer n.
RECURSIVE Ulp(_)
Ulp(n) == IF n < Pow2(F32Digits) THEN 1 ELSE 2 * Ulp(n \div 2)

\* `n as f32` for a non-negative integer n, as the integer the float equals:
\* round to nearest, ties to even significand.
ToF32(n) ==
    LET u == Ulp(n)
        q == n \div u
        r == n % u
    IN  IF 2 * r < u THEN q * u
        ELSE IF 2 * r > u THEN (q + 1) * u
        ELSE IF q % 2 = 0 THEN q * u ELSE (q + 1) * u

\* f32 addition of two integer-valued floats: the exact sum, rounded.
F32Add(a, b) == ToF32(a + b)

(* --------------------------- the command line -------------------------- *)

\* Decimal text of n.
RECURSIVE Decimal(_)
Decimal(n) ==
    IF n < 10 THEN <<DigitChars[n + 1]>>
    ELSE Decimal(n \div 10) \o <<DigitChars[(n % 10) + 1]>>

Tokens ==
    {Decimal(n) : n \in 0..MaxVal}
        \cup {<<"a", "b", "c">>, <<"+", "1">>, <<"-", "1">>, <<>>}

RECURSIVE SeqsUpTo(_, _)
SeqsUpTo(S, n) ==
    IF n = 0 THEN {<<>>}
    ELSE LET shorter == SeqsUpTo(S, n - 1)
         IN  shorter \cup {Append(s, t) : s \in shorter, t \in S}

\* Surplus arguments are never parsed: a valid and an invalid one will do.
SurplusTokens == {<<"7">>, <<"x">>}

\* env::args(): the program name, then up to three positional arguments,
\* then, when all three are there, any surplus ones.
ArgVectors ==
    {<<<<"p">>>> \o a : a \in SeqsUpTo(Tokens, 3)}
        \cup {<<<<"p">>>> \o a \o e :
                 a \in {t \in SeqsUpTo(Tokens, 3) : Len(t) = 3},
                 e \in SeqsUpTo(SurplusTokens, MaxExtra) \ {<<>>}}

(* ------------------------------ output --------------------------------- *)

Notice(field, using) == [kind |-> "invalid", field |-> field, using |-> using]

SummaryLine(rows, cols, rpts) ==
    [kind |-> "summary", rows |-> rows, cols |-> cols, repeats |-> rpts]

ErrorLine(x, y, outv, inv) ==
    [kind |-> "error", ix |-> x, iy |-> y, out |-> outv, in |-> inv]

(* ------------------------------- Init ---------------------------------- *)

Init ==
    /\ args \in ArgVectors
    /\ pc = "repeats"
    /\ nrpt = DefaultNrpt
    /\ ny = DefaultNy
    /\ nx = DefaultNx
    /\ in_array = <<>>
    /\ out_array = <<>>
    /\ iy = 0
    /\ ix = 0
    /\ irpt = 1
    /\ stdout = <<>>
    /\ compared = <<>>
    /\ written = {}
    /\ calls = 0

(* ------------------------- argument resolution ------------------------- *)

\* Rust's args[k] is args[k + 1] here (sequences start at 1).
ParseRepeatsTight ==
    /\ pc = "repeats"
    /\ IF Len(args) > 1
       THEN LET number == ParseUsize(args[2])
            IN  /\ nrpt' = IF number >= 0 THEN number ELSE nrpt
                /\ stdout' = IF number >= 0 THEN stdout
                             ELSE Append(stdout, Notice("Repeats", nrpt))
                /\ pc' = IF number >= 0 THEN "rows" ELSE "summary"
       ELSE /\ pc' = "summary"
            /\ UNCHANGED <<nrpt, stdout>>
    /\ UNCHANGED <<args, ny, nx, in_array, out_array, iy, ix, irpt,
                   compared, written, calls>>

ParseRepeats ==
    /\ pc = "repeats"
    /\ IF Len(args) > 1
       THEN LET number == ParseUsize(args[2])
            IN  /\ nrpt' = IF number >= 0 THEN number ELSE nrpt
                /\ stdout' = IF number >= 0 THEN stdout
                             ELSE Append(stdout, Notice("Repeats", nrpt))
                /\ pc' = "rows"
       ELSE /\ pc' = "summary"
            /\ UNCHANGED <<nrpt, stdout>>
    /\ UNCHANGED <<args, ny, nx, in_array, out_array, iy, ix, irpt,
                   compared, written, calls>>

ParseRows ==
    /\ pc = "rows"
    /\ IF Len(args) > 2
       THEN LET number == ParseUsize(args[3])
            IN  /\ ny' = IF number >= 0 THEN number ELSE ny
                /\ stdout' = IF number >= 0 THEN stdout
                             ELSE Append(stdout, Notice("Rows", ny))
                /\ pc' = "columns"
       ELSE /\ pc' = "summary"
            /\ UNCHANGED <<ny, stdout>>
    /\ UNCHANGED <<args, nrpt, nx, in_array, out_array, iy, ix, irpt,
                   compared, written, calls>>

ParseColumns ==
    /\ pc = "columns"
    /\ IF Len(args) > 3
       THEN LET number == ParseUsize(args[4])
            IN  /\ nx' = IF number >= 0 THEN number ELSE nx
                /\ stdout' = IF number >= 0 THEN stdout
                             ELSE Append(stdout, Notice("Columns", nx))
       ELSE UNCHANGED <<nx, stdout>>
    /\ pc' = "summary"
    /\ UNCHANGED <<args, nrpt, ny, in_array, out_array, iy, ix, irpt,
                   compared, written, calls>>

Summary ==
    /\ pc = "summary"
    /\ stdout' = Append(stdout, SummaryLine(ny, nx, nrpt))
    /\ pc' = "alloc"
    /\ UNCHANGED <<args, nrpt, ny, nx, in_array, out_array, iy, ix, irpt,
                   compared, written, calls>>

(* ------------------------ allocation and fill -------------------------- *)

\* The configurations whose arrays and repeat loop the model builds.
InBounds == ny <= MaxDim /\ nx <= MaxDim /\ nrpt <= MaxRpt

\* vec![vec![0.0f32; nx]; ny]
ZeroArrayExtra(rows, cols) == [y \in 0..rows |-> [x \in 0..cols |-> 0]]

ZeroArray(rows, cols) == [y \in 0..(rows - 1) |-> [x \in 0..(cols - 1) |-> 0]]

Allocate ==
    /\ pc = "alloc"
    /\ InBounds
    /\ in_array' = ZeroArray(ny, nx)
    /\ out_array' = ZeroArray(ny, nx)
    /\ iy' = 0
    /\ ix' = 0
    /\ pc' = "fill"
    /\ UNCHANGED <<args, nrpt, ny, nx, irpt, stdout, compared, written, calls>>

\* The values nx - ix + ny - iy takes, left to right, in usize arithmetic.
SeedStepsOneBased(cols, x, rows, y) ==
    <<cols - (x + 1), cols - (x + 1) + rows, cols - (x + 1) + rows - (y + 1)>>

SeedSteps(cols, x, rows, y) ==
    <<cols - x, cols - x + rows, cols - x + rows - y>>

SeedRowsOnly(cols, x, rows, y) == ToF32(rows - y)

\* (nx - ix + ny - iy) as f32
SeedValue(cols, x, rows, y) == ToF32(SeedSteps(cols, x, rows, y)[3])

FillCell ==
    /\ pc = "fill"
    /\ iy < ny
    /\ ix < nx
    /\ in_array' = [in_array EXCEPT ![iy][ix] = SeedValue(nx, ix, ny, iy)]
    /\ ix' = ix + 1
    /\ UNCHANGED <<args, pc, nrpt, ny, nx, out_array, iy, irpt, stdout,
                   compared, written, calls>>

FillNextRow ==
    /\ pc = "fill"
    /\ iy < ny
    /\ ix >= nx
    /\ iy' = iy + 1
    /\ ix' = 0
    /\ UNCHANGED <<args, pc, nrpt, ny, nx, in_array, out_array, irpt, stdout,
                   compared, written, calls>>

FillDone ==
    /\ pc = "fill"
    /\ iy >= ny
    /\ irpt' = 1
    /\ pc' = "kernel"
    /\ UNCHANGED <<args, nrpt, ny, nx, in_array, out_array, iy, ix, stdout,
                   compared, written, calls>>

(* ------------------------------ kernel --------------------------------- *)

\* The cells of a rows x cols array, as <<row, column>>.
Cells(rows, cols) == (0..(rows - 1)) \X (0..(cols - 1))

\* crssub_unsafe::csub(&in_array, nx, ny, &mut out_array), by its contract:
\* every cell in range receives input + (ix + iy) as f32; nothing else is
\* touched.  The result is the new contents of the output array.
CsubColumnOnly(input, cols, rows, output) ==
    [y \in DOMAIN output |-> [x \in DOMAIN output[y] |->
        IF y < rows /\ x < cols
        THEN F32Add(input[y][x], ToF32(x))
        ELSE output[y][x]]]

CsubAccumulate(input, cols, rows, output) ==
    [y \in DOMAIN output |-> [x \in DOMAIN output[y] |->
        IF y < rows /\ x < cols
        THEN F32Add(output[y][x], F32Add(input[y][x], ToF32(x + y)))
        ELSE output[y][x]]]

Csub(input, cols, rows, output) ==
    [y \in DOMAIN output |-> [x \in DOMAIN output[y] |->
        IF y < rows /\ x < cols
        THEN F32Add(input[y][x], ToF32(x + y))
        ELSE output[y][x]]]

\* for _irpt in 1..=nrpt { csub(...) }
MoreRepeatsExclusive == irpt < nrpt

\* The range test of the loop: irpt is still within 1..=nrpt.
MoreRepeats == irpt <= nrpt

KernelCall ==
    /\ pc = "kernel"
    /\ MoreRepeats
    /\ out_array' = Csub(in_array, nx, ny, out_array)
    /\ written' = written \cup Cells(ny, nx)
    /\ calls' = calls + 1
    /\ irpt' = irpt + 1
    /\ UNCHANGED <<args, pc, nrpt, ny, nx, in_array, iy, ix, stdout, compared>>

KernelDone ==
    /\ pc = "kernel"
    /\ ~MoreRepeats
    /\ iy' = 0
    /\ ix' = 0
    /\ pc' = "check"
    /\ UNCHANGED <<args, nrpt, ny, nx, in_array, out_array, irpt, stdout,
                   compared, written, calls>>

(* ---------------------------- verification ----------------------------- *)

\* in_array[iy][ix] + (ix + iy) as f32
Expected(input, x, y) == F32Add(input[y][x], ToF32(x + y))

CheckCellNoBreak ==
    /\ pc = "check"
    /\ iy < ny
    /\ ix < nx
    /\ compared' = Append(compared, <<iy, ix>>)
    /\ stdout' = IF out_array[iy][ix] # Expected(in_array, ix, iy)
                 THEN Append(stdout, ErrorLine(ix, iy, out_array[iy][ix],
                                               in_array[iy][ix]))
                 ELSE stdout
    /\ ix' = ix + 1
    /\ UNCHANGED <<args, pc, nrpt, ny, nx, in_array, out_array, iy, irpt,
                   written, calls>>

CheckCell ==
    /\ pc = "check"
    /\ iy < ny
    /\ ix < nx
    /\ compared' = Append(compared, <<iy, ix>>)
    /\ IF out_array[iy][ix] # Expected(in_array, ix, iy)
       THEN /\ stdout' = Append(stdout, ErrorLine(ix, iy, out_array[iy][ix],
                                                  in_array[iy][ix]))
            /\ pc' = "done"
            /\ UNCHANGED ix
       ELSE /\ ix' = ix + 1
            /\ UNCHANGED <<stdout, pc>>
    /\ UNCHANGED <<args, nrpt, ny, nx, in_array, out_array, iy, irpt,
                   written, calls>>

CheckNextRow ==
    /\ pc = "check"
    /\ iy < ny
    /\ ix >= nx
    /\ iy' = iy + 1
    /\ ix' = 0
    /\ UNCHANGED <<args, pc, nrpt, ny, nx, in_array, out_array, irpt, stdout,
                   compared, written, calls>>

CheckDone ==
    /\ pc = "check"
    /\ iy >= ny
    /\ pc' = "done"
    /\ UNCHANGED <<args, nrpt, ny, nx, in_array, out_array, iy, ix, irpt,
                   stdout, compared, written, calls>>

(* --------------------------- specifications ---------------------------- *)

Next ==
    \/ ParseRepeats
    \/ ParseRows
    \/ ParseColumns
    \/ Summary
    \/ Allocate
    \/ FillCell
    \/ FillNextRow
    \/ FillDone
    \/ KernelCall
    \/ KernelDone
    \/ CheckCell
    \/ CheckNextRow
    \/ CheckDone

Spec == Init /\ [][Next]_vars

\* main is one sequential thread: whenever a step is possible it is taken.
LiveSpec == Init /\ [][Next]_vars /\ WF_vars(Next)

(* ----------------- the seed and the expected value, per cell ----------- *)

\* f32 holds every integer up to 2^24 exactly; dimensions around that limit
\* are where `as f32` starts to round.  Arrays of that size are not built
\* cell by cell: CellSpec evaluates the fill expression (line 143) and the
\* verification expression (line 158) on single cells of such arrays.
MaxOff == 2

F32Exact == Pow2(F32Digits)

LargeDims == (0..MaxDim) \cup ((F32Exact - MaxOff)..(F32Exact + MaxOff))

\* Indices of a dimension of n: its first and last few.
Window(n) == {i \in (0..MaxDim) \cup ((n - 1 - MaxOff)..(n - 1)) : 0 <= i /\ i < n}

\* One dimension is large, the other small: both arrays fit in memory.
CellInit ==
    /\ args = <<<<"p">>>>
    /\ pc = "fill"
    /\ nrpt = 0
    /\ \/ ny \in LargeDims /\ nx \in 0..MaxDim
       \/ ny \in 0..MaxDim /\ nx \in LargeDims
    /\ in_array = <<>>
    /\ out_array = <<>>
    /\ iy = 0
    /\ ix = 0
    /\ irpt = 1
    /\ stdout = <<>>
    /\ compared = <<>>
    /\ written = {}
    /\ calls = 0

\* The body of the fill loop at some cell (iy, ix) of the array; in_array
\* holds that cell alone.
CellFill ==
    /\ pc = "fill"
    /\ \E y \in Window(ny), x \in Window(nx) :
          /\ iy' = y
          /\ ix' = x
          /\ in_array' = (y :> (x :> SeedValue(nx, x, ny, y)))
    /\ pc' = "check"
    /\ UNCHANGED <<args, nrpt, ny, nx, out_array, irpt, stdout, compared,
                   written, calls>>

\* The right-hand side of the comparison at that cell; out_array holds the
\* value the scan expects there.
CellExpect ==
    /\ pc = "check"
    /\ out_array' = (iy :> (ix :> Expected(in_array, ix, iy)))
    /\ pc' = "done"
    /\ UNCHANGED <<args, nrpt, ny, nx, in_array, iy, ix, irpt, stdout,
                   compared, written, calls>>

CellNext == CellFill \/ CellExpect

CellSpec == CellInit /\ [][CellNext]_vars

(* ------------------------------- claims -------------------------------- *)

Resolving == pc \in {"repeats", "rows", "columns"}

Allocated == pc \in {"fill", "kernel", "check", "done"}

Filled == pc \in {"kernel", "check", "done"}

\* The lines of a kind printed so far, in order.
Lines(kind) == SelectSeq(stdout, LAMBDA l : l.kind = kind)

\* Rust's args[k] is present.
Present(k) == Len(args) > k

Valid(k) == Present(k) /\ ParseUsize(args[k + 1]) >= 0

\* What position k, taken on its own, resolves to.
Resolved(k, default) == IF Valid(k) THEN ParseUsize(args[k + 1]) ELSE default

\* The notice position k, taken on its own, gives rise to.
NoticeFor(k, field, default) ==
    IF Present(k) /\ ~Valid(k) THEN <<Notice(field, default)>> ELSE <<>>

C3_DocumentedOrder ==
    ~Resolving =>
        /\ nrpt = Resolved(1, DefaultNrpt)
        /\ nx = Resolved(2, DefaultNx)
        /\ ny = Resolved(3, DefaultNy)

\* Row-major order of the cells of the arrays.
RowMajor == [k \in 1..(ny * nx) |-> <<(k - 1) \div nx, (k - 1) % nx>>]

Mismatch(c) ==
    out_array[c[1]][c[2]] # F32Add(in_array[c[1]][c[2]], ToF32(c[2] + c[1]))

\* C4: the scan compares cells in row-major order; every compared cell but
\* the last one matched; at most one error line is printed, it is printed
\* for the last compared cell, which mismatches, and the scan is then over;
\* a scan that ends without an error line has compared every cell.
C4_FirstMismatchOnly ==
    pc \in {"check", "done"} =>
        LET n == Len(compared)
            errs == Lines("error")
        IN  /\ n <= ny * nx
            /\ \A k \in 1..n : compared[k] = RowMajor[k]
            /\ \A k \in 1..(n - 1) : ~Mismatch(compared[k])
            /\ Len(errs) <= 1
            /\ Len(errs) = 1 =>
                  /\ pc = "done"
                  /\ Mismatch(compared[n])
                  /\ errs[1] = ErrorLine(compared[n][2], compared[n][1],
                                         out_array[compared[n][1]][compared[n][2]],
                                         in_array[compared[n][1]][compared[n][2]])
            /\ Len(errs) = 0 => \A k \in 1..n : ~Mismatch(compared[k])
            /\ (pc = "done" /\ Len(errs) = 0) => n = ny * nx

\* A scan that stopped at its first cell although later cells are wrong too.
C4_Witness ==
    /\ pc = "done"
    /\ Len(Lines("error")) = 1
    /\ compared = <<<<0, 0>>>>
    /\ ny = 2 /\ nx = 2
    /\ Mismatch(<<1, 1>>)

\* C5: every output cell the scan has compared was stored to by a kernel
\* call before.
C5_WrittenBeforeRead ==
    \A k \in 1..Len(compared) : compared[k] \in written

\* The cells an array holds.
ArrayCells(a) == {<<y, x>> : y \in DOMAIN a, x \in UNION {DOMAIN a[r] : r \in DOMAIN a}}

\* C6: with no rows or no columns, both arrays hold no cell, the scan
\* compares nothing and no error line is printed.
C6_EmptyArrays ==
    (Allocated /\ (ny = 0 \/ nx = 0)) =>
        /\ ArrayCells(in_array) = {}
        /\ ArrayCells(out_array) = {}
        /\ compared = <<>>
        /\ Lines("error") = <<>>

\* A finished run over rows without columns, the kernel called twice.
C6_Witness ==
    /\ pc = "done"
    /\ ny = 2 /\ nx = 0
    /\ calls = 2

\* C1: after a kernel call every cell of the output holds the input cell
\* plus the f32 of its index sum, the value the scan compares against.
C1_KernelResult ==
    (Filled /\ calls >= 1) =>
        \A c \in Cells(ny, nx) :
            /\ out_array[c[1]][c[2]]
                 = F32Add(in_array[c[1]][c[2]], ToF32(c[2] + c[1]))
            /\ out_array[c[1]][c[2]] = Expected(in_array, c[2], c[1])

\* Right after the first call on a 2 x 2 array.
C1_Witness ==
    /\ pc = "kernel"
    /\ calls = 1
    /\ ny = 2 /\ nx = 2
    /\ out_array[1][1] = 4

\* C7: a kernel call after the first leaves the output as it was, and the
\* output the scan sees after one or more calls is the output of one call.
C7_Idempotent ==
    /\ [][(calls >= 1 /\ calls' = calls + 1) => out_array' = out_array]_vars
    /\ [](pc \in {"check", "done"} /\ nrpt >= 1
            => out_array = Csub(in_array, nx, ny, ZeroArray(ny, nx)))

\* The scan starts after two calls on a 2 x 2 array.
C7_Witness ==
    /\ pc = "check"
    /\ calls = 2
    /\ ny = 2 /\ nx = 2

\* C8: once allocated, both arrays have ny rows of nx elements; once the
\* fill is over, every input cell holds (nx - ix) + (ny - iy) as f32, through
\* every kernel call and the scan.
C8_InputFrame ==
    /\ Allocated =>
          /\ DOMAIN in_array = 0..(ny - 1)
          /\ DOMAIN out_array = 0..(ny - 1)
          /\ \A y \in 0..(ny - 1) :
                /\ DOMAIN in_array[y] = 0..(nx - 1)
                /\ DOMAIN out_array[y] = 0..(nx - 1)
    /\ Filled =>
          \A c \in Cells(ny, nx) :
              in_array[c[1]][c[2]] = ToF32((nx - c[2]) + (ny - c[1]))

\* The end of a run that called the kernel on a 2 x 2 array.
C8_Witness ==
    /\ pc = "done"
    /\ calls = 2
    /\ ny = 2 /\ nx = 2
    /\ in_array[0][0] = 4 /\ in_array[1][1] = 2

Rank(p) ==
    CASE p = "repeats" -> 0
      [] p = "rows" -> 1
      [] p = "columns" -> 2
      [] p = "summary" -> 3
      [] p = "alloc" -> 4
      [] p = "fill" -> 5
      [] p = "kernel" -> 6
      [] p = "check" -> 7
      [] p = "done" -> 8

\* C9: the phases follow each other in the one order resolution, summary,
\* allocation and fill, kernel loop, scan, end; the summary is printed once,
\* before anything but notices; the kernel is called only in its loop and
\* exactly nrpt times before the scan starts; and every run whose arrays
\* are built ends, with or without an error line.
C9_SequenceAndTermination ==
    /\ [][Rank(pc') >= Rank(pc)]_vars
    /\ [][calls' # calls => (pc = "kernel" /\ calls' = calls + 1)]_vars
    /\ [](pc = "kernel" => calls = irpt - 1 /\ calls <= nrpt)
    /\ [](pc \in {"check", "done"} => calls = nrpt)
    /\ [](Len(Lines("summary")) = IF Rank(pc) >= 4 THEN 1 ELSE 0)
    /\ [](Rank(pc) < 7 => Lines("error") = <<>>)
    /\ [](Rank(pc) >= 4 => Lines("summary") = <<SummaryLine(ny, nx, nrpt)>>)
    /\ <>(pc = "done" \/ (pc = "alloc" /\ ~InBounds))

\* A run with no kernel call that ended after printing an error line.
C9_Witness ==
    /\ pc = "done"
    /\ Len(Lines("error")) = 1
    /\ Len(Lines("summary")) = 1
    /\ calls = 0

\* No intermediate value of nx - ix + ny - iy is negative, and the result
\* lies between 2 and nx + ny.
SeedInRange(cols, x, rows, y) ==
    LET t == SeedSteps(cols, x, rows, y)
    IN  /\ \A i \in 1..3 : t[i] >= 0
        /\ 2 <= t[3]
        /\ t[3] <= cols + rows

\* C10 as stated: at every cell the seed expression stays in range and the
\* value the scan expects is nx + ny.
C10_ExpectedIsSum ==
    pc = "done" =>
        /\ SeedInRange(nx, ix, ny, iy)
        /\ in_array[iy][ix] >= 2
        /\ out_array[iy][ix] = nx + ny

\* C10 amended: the seed expression stays in range at every cell, and the
\* value the scan expects is nx + ny whenever nx + ny is at most 2^24.
C10_ExpectedIsSumWhenExact ==
    pc = "done" =>
        /\ SeedInRange(nx, ix, ny, iy)
        /\ in_array[iy][ix] >= 2
        /\ (nx + ny <= F32Exact => out_array[iy][ix] = nx + ny)

\* The last cell of the longest row whose expected value is still exact.
C10_Witness ==
    /\ pc = "done"
    /\ nx + ny = F32Exact
    /\ ny = 2
    /\ ix = nx - 1 /\ iy = 1
    /\ in_array[iy][ix] = 2
    /\ out_array[iy][ix] = F32Exact

====
